---- MODULE Spec2Model ----
(***************************************************************************)
(* The database connection manager of server/db.ts (listed in src/TODO.md, *)
(* lines 180-381) as a state machine.  Node runs one callback at a time,   *)
(* so an action is the code between two awaits: it starts where a promise  *)
(* (connect, query, timer, pool.end) settles and runs to the next await,   *)
(* return or throw.                                                        *)
(***************************************************************************)
EXTENDS Integers, Sequences, FiniteSets, TLC

VARIABLES
    production,         \* process.env.NODE_ENV === 'production'
    pool,               \* the stored pool (a pool id), or Null
    db,                 \* the stored drizzle client: the id of the pool it wraps, or Null
    connectionRetries,  \* the module's retry counter
    ended,              \* the pools on which end() has been called
    calls,              \* one record per initializeDatabase() call, in call order
    shutdown,           \* per signal: the gracefulShutdown run it started
    nHandled,           \* runs of handlePoolError so far
    uncaught,           \* an 'error' event found no listener: the process has exited
    q,                  \* the queryWithRetry() call
    h,                  \* the checkDatabaseHealth() call
    now,                \* Date.now(), in ticks
    hasDatabaseUrl,     \* !!process.env.DATABASE_URL
    faulted,            \* the pools whose 'error' event handlePoolError received
    entrypoint,         \* the entry module the process runs
    routesReady,        \* the routes-ready promise (a registration), or Null
    registrations,      \* one record per registerRoutes(app) call, in call order
    req,                \* per handler invocation: its position and its answer
    vercelUrl,          \* process.env.VERCEL_URL ("" when unset)
    frontendUrl,        \* process.env.FRONTEND_URL ("" when unset)
    stack,              \* the app's middleware stack, in app.use() order
    cors                \* the last decision of the cors origin callback

vars == <<production, pool, db, connectionRetries, ended, calls, shutdown,
          nHandled, uncaught, q, h, now, hasDatabaseUrl, faulted, entrypoint,
          routesReady, registrations, req, vercelUrl, frontendUrl, stack,
          cors>>

\* The process environment, read and never written.
configVars == <<production, hasDatabaseUrl, vercelUrl, frontendUrl>>

\* The Express app.
appVars == <<stack, cors>>

\* What the entry module holds.
handlerVars == <<entrypoint, routesReady, registrations, req>>

\* What the helpers built on initializeDatabase() hold.
helperVars == <<q, h, now>>

\* ------------------------------------------------------------------ bounds
\* initializeDatabase() calls considered after the eager one at module load
MaxCalls == 1
\* runs of handlePoolError considered
MaxFaults == 1

\* --------------------------------------------------------------- constants
Null == 0
maxConnectionRetries == 3
connectionRetryDelay == 1000

\* A rejected connect or query carries a code; 57P01 is admin_shutdown.
ErrCodes == {"57P01", "ECONNREFUSED"}
NoError == [code |-> "", attempt |-> 0]
\* The error raised by a failed attempt, tagged with the attempt that raised it.
AttemptError(code, attempt) == [code |-> code, attempt |-> attempt]
\* new Error('Failed to initialize database after maximum retries')
MaxRetriesError == [code |-> "none", attempt |-> 0]

Signals == {"SIGTERM", "SIGINT"}

\* -------------------------------------------------------- initializeDatabase
\* The check with its second operand negated: if (pool && !db).
HasStoredPair_Negated(p, d) == p # Null /\ d = Null

\* if (pool && db)
HasStoredPair(p, d) == p # Null /\ d # Null

\* The delay without the attempt factor.
BackoffDelay_Constant(attempt) == connectionRetryDelay

\* connectionRetryDelay * attempt
BackoffDelay(attempt) == connectionRetryDelay * attempt

\* The bound off by one: attempt <= maxConnectionRetries.
RetriesLeft_Inclusive(attempt) == attempt <= maxConnectionRetries

\* if (attempt < maxConnectionRetries)
RetriesLeft(attempt) == attempt < maxConnectionRetries

\* Who receives a rejection of the call: the eager call at module load and the
\* call made by handlePoolError carry a .catch that logs it; getDb()/getPool()
\* hand it to their caller.
RejectionSink(kind) == IF kind \in {"eager", "heal"} THEN "logged" ELSE "caller"

\* The pool made by new Pool(poolConfig) in attempt a of call c.
PoolId(c, a) == maxConnectionRetries * (c - 1) + a

\* The first iteration of the loop up to its first await: new Pool(poolConfig)
\* and newPool.connect() pending.
FirstAttempt(kind, c) ==
    [kind |-> kind, pc |-> "connect", attempt |-> 1, newPool |-> PoolId(c, 1),
     fails |-> 0, waits |-> <<>>, ret |-> <<Null, Null>>, thrown |-> NoError,
     sink |-> "", held |-> 0]

\* The fast path: the stored pair is returned as it is.
FastReturn(kind, p, d) ==
    [kind |-> kind, pc |-> "done", attempt |-> 0, newPool |-> Null,
     fails |-> 0, waits |-> <<>>, ret |-> <<p, d>>, thrown |-> NoError,
     sink |-> "", held |-> 0]

\* initializeDatabase() from its call to its first await (or its return), when
\* the module holds pool p and client d at the call.
initializeDatabase(kind, p, d) ==
    calls' = Append(calls, IF HasStoredPair(p, d)
                           THEN FastReturn(kind, p, d)
                           ELSE FirstAttempt(kind, Len(calls) + 1))

\* The load-time check without its test.
ModuleLoads_Unchecked(url) == TRUE

\* if (!process.env.DATABASE_URL) { throw new Error(...) }: the module body
\* runs past the check only when the connection string is set.
ModuleLoads(url) == url

\* The calls made by the module body: the eager initializeDatabase() when the
\* body gets that far, none when it threw at the check.
LoadCalls(url) ==
    IF ModuleLoads(url) THEN << FirstAttempt("eager", 1) >> ELSE << >>

\* The process runs when the module has loaded, until an 'error' event goes
\* uncaught.
Running == ModuleLoads(hasDatabaseUrl) /\ ~uncaught

Live(c) == c \in 1..Len(calls)

\* A release on the success path only: client.release() after the query
\* instead of in a finally block.
ReleaseClient_NoFinally(held, queryOk) ==
    IF queryOk THEN held - 1 ELSE held

\* finally { client.release() }: the connection is released whether the query
\* resolved or rejected.  held counts the connections the operation has
\* checked out and not released.
ReleaseClient(held, queryOk) == held - 1

\* new Pool(poolConfig) and drizzle({ client: newPool, ... }): the client is
\* known by the pool it wraps.
drizzle(newPool) == newPool

\* The catch block of call c, whose record is r when the block is entered:
\* count the failure, then back off or rethrow.
Catch(c, r, code) ==
    LET err == AttemptError(code, r.attempt) IN
    /\ connectionRetries' = connectionRetries + 1
    /\ calls' = [calls EXCEPT ![c] =
         IF RetriesLeft(r.attempt)
         THEN [r EXCEPT !.pc = "backoff", !.fails = @ + 1,
                        !.waits = Append(@, BackoffDelay(r.attempt))]
         ELSE [r EXCEPT !.pc = "failed", !.fails = @ + 1, !.thrown = err,
                        !.sink = RejectionSink(r.kind)]]

\* newPool.connect() resolves: the liveness query is issued.
ConnectOk(c) ==
    /\ Running /\ Live(c) /\ calls[c].pc = "connect"
    /\ calls' = [calls EXCEPT ![c].pc = "query", ![c].held = @ + 1]
    /\ UNCHANGED <<configVars, appVars, handlerVars, faulted, pool, db, connectionRetries, ended,
                   shutdown, nHandled, uncaught, helperVars>>

\* newPool.connect() rejects.
ConnectFail(c) ==
    /\ Running /\ Live(c) /\ calls[c].pc = "connect"
    /\ \E code \in ErrCodes : Catch(c, calls[c], code)
    /\ UNCHANGED <<configVars, appVars, handlerVars, faulted, pool, db, ended,
                   shutdown, nHandled, uncaught, helperVars>>

\* client.query('SELECT NOW()') resolves: release, wrap the pool, store the pair.
QueryOk(c) ==
    /\ Running /\ Live(c) /\ calls[c].pc = "query"
    /\ pool' = calls[c].newPool
    /\ db' = drizzle(calls[c].newPool)
    /\ connectionRetries' = 0
    /\ calls' = [calls EXCEPT ![c].pc = "done",
                              ![c].held = ReleaseClient(@, TRUE),
                              ![c].ret = <<calls[c].newPool,
                                           drizzle(calls[c].newPool)>>]
    /\ UNCHANGED <<configVars, appVars, handlerVars, faulted, ended, shutdown, nHandled,
                   uncaught, helperVars>>

\* client.query('SELECT NOW()') rejects: release (finally), then the catch block.
QueryFail(c) ==
    /\ Running /\ Live(c) /\ calls[c].pc = "query"
    /\ \E code \in ErrCodes :
         Catch(c, [calls[c] EXCEPT !.held = ReleaseClient(@, FALSE)], code)
    /\ UNCHANGED <<configVars, appVars, handlerVars, faulted, pool, db, ended,
                   shutdown, nHandled, uncaught, helperVars>>

\* A loop whose counter never moves: for (let attempt = 1; ...; ) without the
\* increment.
NextAttempt_Stuck(attempt) == attempt

\* attempt++ of for (let attempt = 1; attempt <= maxConnectionRetries; attempt++)
NextAttempt(attempt) == attempt + 1

\* The backoff timer fires: attempt++, and the loop's next iteration (or, past
\* the last one, the throw after the loop).
TimerFire(c) ==
    /\ Running /\ Live(c) /\ calls[c].pc = "backoff"
    /\ calls' = [calls EXCEPT ![c] =
         IF NextAttempt(@.attempt) <= maxConnectionRetries
         THEN [@ EXCEPT !.pc = "connect", !.attempt = NextAttempt(@),
                        !.newPool = PoolId(c, NextAttempt(calls[c].attempt))]
         ELSE [@ EXCEPT !.pc = "failed", !.thrown = MaxRetriesError,
                        !.sink = RejectionSink(calls[c].kind)]]
    /\ UNCHANGED <<configVars, appVars, handlerVars, faulted, pool, db, connectionRetries, ended,
                   shutdown, nHandled, uncaught, helperVars>>

\* ------------------------------------------------------------ getDb / getPool
\* A request handler calls getDb() or getPool(): both await initializeDatabase().
getDb ==
    /\ Running
    /\ Len(calls) < 1 + MaxCalls
    /\ initializeDatabase("getDb", pool, db)
    /\ UNCHANGED <<configVars, appVars, handlerVars, faulted, pool, db, connectionRetries, ended,
                   shutdown, nHandled, uncaught, helperVars>>

\* ------------------------------------------------------------ handlePoolError
\* The handler without the mode test.
AutoHeal_Always(prod) == TRUE

\* if (process.env.NODE_ENV === 'production')
AutoHeal(prod) == prod

\* A clearing that forgets the client: pool = null only.
Cleared_PoolOnly(p, d) == <<Null, d>>

\* pool = null; db = null: the stored pair after it, when it was <<p, d>>.
Cleared(p, d) == <<Null, Null>>

\* A handler that only logs the error, whatever the mode.
handlePoolErrorBody_LogOnly == UNCHANGED <<pool, db, calls>>

\* The body of handlePoolError(err).
handlePoolErrorBody ==
    IF AutoHeal(production)
    THEN /\ pool' = Cleared(pool, db)[1]
         /\ db' = Cleared(pool, db)[2]
         /\ initializeDatabase("heal", Cleared(pool, db)[1], Cleared(pool, db)[2])
    ELSE UNCHANGED <<pool, db, calls>>

\* handlePoolError(err) runs, err being a fault of pool p.
handlePoolError(p) ==
    /\ Running
    /\ nHandled < MaxFaults
    /\ Len(calls) < 1 + MaxCalls
    /\ nHandled' = nHandled + 1
    /\ faulted' = faulted \cup {p}
    /\ handlePoolErrorBody
    /\ UNCHANGED <<configVars, appVars, handlerVars, connectionRetries, ended, shutdown,
                   uncaught, helperVars>>

\* The 'error' listeners of a pool made by new Pool(poolConfig): the module
\* never calls newPool.on('error', ...), so there are none.
ErrorListeners(p) == {}

\* The pools constructed so far, and those among them not ended.
Constructed ==
    UNION {{PoolId(c, a) : a \in 1..calls[c].attempt} : c \in 1..Len(calls)}
OpenPools == Constructed \ ended

\* The open pools that can hold an idle client: those no attempt in progress
\* is connecting or querying ('Unexpected error on idle client').
Faultable ==
    OpenPools \ {calls[c].newPool :
                   c \in {d \in 1..Len(calls) : calls[d].pc \in {"connect", "query"}}}

\* An open pool emits 'error' (an idle connection dropped by the server): the
\* emit calls the pool's listeners synchronously, and an 'error' event that
\* finds no listener is thrown as an uncaught exception, which ends the process.
PoolFault(p) ==
    /\ Running
    /\ p \in OpenPools
    /\ IF "handlePoolError" \in ErrorListeners(p)
       THEN /\ nHandled < MaxFaults
            /\ Len(calls) < 1 + MaxCalls
            /\ nHandled' = nHandled + 1
            /\ faulted' = faulted \cup {p}
            /\ handlePoolErrorBody
            /\ UNCHANGED uncaught
       ELSE /\ uncaught' = TRUE
            /\ UNCHANGED <<pool, db, calls, nHandled, faulted>>
    /\ UNCHANGED <<configVars, appVars, handlerVars, connectionRetries, ended, shutdown,
                   helperVars>>

\* ----------------------------------------------------------- gracefulShutdown
\* A signal arrives: gracefulShutdown() up to its await of pool.end(), or to its
\* end when no pool is stored.  end() on a pool that was already ended rejects
\* at once, and the catch block logs it.
ShutdownStart(s) ==
    /\ Running
    /\ shutdown[s].pc = "idle"
    /\ IF pool = Null
       THEN /\ shutdown' = [shutdown EXCEPT ![s].pc = "done"]
            /\ UNCHANGED ended
       ELSE IF pool \in ended
       THEN /\ shutdown' = [shutdown EXCEPT ![s].pc = "done", ![s].failed = TRUE,
                                            ![s].endCalled = pool]
            /\ UNCHANGED ended
       ELSE /\ shutdown' = [shutdown EXCEPT ![s].pc = "ending",
                                            ![s].endCalled = pool]
            /\ ended' = ended \cup {pool}
    /\ UNCHANGED <<configVars, appVars, handlerVars, faulted, pool, db, connectionRetries, calls, nHandled,
                   uncaught, helperVars>>

\* pool.end() resolves: pool = null; db = null.
ShutdownEnd(s) ==
    /\ Running
    /\ shutdown[s].pc = "ending"
    /\ shutdown' = [shutdown EXCEPT ![s].pc = "done"]
    /\ pool' = Cleared(pool, db)[1]
    /\ db' = Cleared(pool, db)[2]
    /\ UNCHANGED <<configVars, appVars, handlerVars, faulted, connectionRetries, ended,
                   calls, nHandled, uncaught, helperVars>>

\* pool.end() rejects: the catch block logs it and the stored pair stays.
ShutdownEndFail(s) ==
    /\ Running
    /\ shutdown[s].pc = "ending"
    /\ shutdown' = [shutdown EXCEPT ![s].pc = "done", ![s].failed = TRUE]
    /\ UNCHANGED <<configVars, appVars, handlerVars, faulted, pool, db, connectionRetries, ended, calls,
                   nHandled, uncaught, q, h, now>>

\* ------------------------------------------------------------ queryWithRetry
\* maxRetries = 3
DefaultMaxRetries == 3
\* The budgets a caller passes as maxRetries.
Budgets == 1..DefaultMaxRetries
\* The codes a rejected query() carries: admin_shutdown, unique_violation, or
\* an error without a code.
OpCodes == {"57P01", "23505", "none"}
NoQueryError == [code |-> "", attempt |-> 0, src |-> ""]

\* The retry condition without the code test.
ShouldRetryQuery_AnyCode(attempt, maxRetries, code) == attempt < maxRetries

\* if (attempt < maxRetries && error.code === '57P01')
ShouldRetryQuery(attempt, maxRetries, code) ==
    attempt < maxRetries /\ code = "57P01"

\* The delay without the attempt factor.
QueryDelay_Constant(attempt) == 1000

\* 1000 * attempt
QueryDelay(attempt) == 1000 * attempt

\* The catch block of queryWithRetry: remember the error, then wait or rethrow.
QueryCatch(r, err) ==
    IF ShouldRetryQuery(r.attempt, r.maxRetries, err.code)
    THEN [r EXCEPT !.pc = "backoff", !.lastError = err,
                   !.codes = Append(@, err.code),
                   !.waits = Append(@, QueryDelay(r.attempt))]
    ELSE [r EXCEPT !.pc = "failed", !.lastError = err,
                   !.codes = Append(@, err.code), !.thrown = err]

\* queryWithRetry(query, m) is called: the first iteration up to await getDb().
queryWithRetry(m) ==
    /\ Running /\ q.pc = "idle"
    /\ q' = [q EXCEPT !.pc = "getDb", !.maxRetries = m, !.attempt = 1,
                      !.call = Len(calls) + 1]
    /\ initializeDatabase("getDb", pool, db)
    /\ UNCHANGED <<configVars, appVars, handlerVars, faulted, pool, db, connectionRetries, ended, shutdown,
                   nHandled, uncaught, h, now>>

\* getDb() resolves: query() is invoked.
QueryDbResolved ==
    /\ Running /\ q.pc = "getDb" /\ calls[q.call].pc = "done"
    /\ q' = [q EXCEPT !.pc = "op", !.invoked = @ + 1]
    /\ UNCHANGED <<configVars, appVars, handlerVars, faulted, pool, db, connectionRetries, ended, calls,
                   shutdown, nHandled, uncaught, h, now>>

\* getDb() rejects with the error initializeDatabase() threw: the catch block.
QueryDbRejected ==
    /\ Running /\ q.pc = "getDb" /\ calls[q.call].pc = "failed"
    /\ q' = QueryCatch([q EXCEPT !.dbFails = @ + 1],
                       [code |-> calls[q.call].thrown.code,
                        attempt |-> q.attempt, src |-> "db"])
    /\ UNCHANGED <<configVars, appVars, handlerVars, faulted, pool, db, connectionRetries, ended, calls,
                   shutdown, nHandled, uncaught, h, now>>

\* query() resolves: its result is returned.
QueryOpOk ==
    /\ Running /\ q.pc = "op"
    /\ q' = [q EXCEPT !.pc = "done", !.result = q.invoked]
    /\ UNCHANGED <<configVars, appVars, handlerVars, faulted, pool, db, connectionRetries, ended, calls,
                   shutdown, nHandled, uncaught, h, now>>

\* query() rejects: the catch block.
QueryOpFail ==
    /\ Running /\ q.pc = "op"
    /\ \E code \in OpCodes :
         q' = QueryCatch([q EXCEPT !.opFails = @ + 1],
                         [code |-> code, attempt |-> q.attempt, src |-> "op"])
    /\ UNCHANGED <<configVars, appVars, handlerVars, faulted, pool, db, connectionRetries, ended, calls,
                   shutdown, nHandled, uncaught, h, now>>

\* The wait ends: attempt++, and the next iteration up to await getDb() (or,
\* past the budget, throw lastError).
QueryTimer ==
    /\ Running /\ q.pc = "backoff"
    /\ IF q.attempt + 1 <= q.maxRetries
       THEN /\ q' = [q EXCEPT !.pc = "getDb", !.attempt = @ + 1,
                              !.call = Len(calls) + 1]
            /\ initializeDatabase("getDb", pool, db)
       ELSE /\ q' = [q EXCEPT !.pc = "failed", !.thrown = q.lastError]
            /\ UNCHANGED calls
    /\ UNCHANGED <<configVars, appVars, handlerVars, faulted, pool, db, connectionRetries, ended, shutdown,
                   nHandled, uncaught, h, now>>

\* -------------------------------------------------------- checkDatabaseHealth
\* the clock readings considered
MaxTime == 2

\* Date.now() - startTime
Elapsed(startTime, t) == t - startTime

\* A catch block that rethrows instead of returning a result.
HealthFailure_Rethrow(r, err, stage, t) ==
    [r EXCEPT !.pc = "threw", !.error = err, !.failedAt = stage]

\* The catch block: { healthy: false, error: error.message, latency }.
HealthFailure(r, err, stage, t) ==
    [r EXCEPT !.pc = "returned", !.healthy = FALSE, !.error = err,
              !.failedAt = stage, !.latency = Elapsed(r.startTime, t)]

\* return { healthy: true, latency }
HealthSuccess(r, t) ==
    [r EXCEPT !.pc = "returned", !.healthy = TRUE,
              !.latency = Elapsed(r.startTime, t)]

\* Date.now() advances.
Tick ==
    /\ Running /\ now < MaxTime
    /\ now' = now + 1
    /\ UNCHANGED <<configVars, appVars, handlerVars, faulted, pool, db, connectionRetries, ended, calls,
                   shutdown, nHandled, uncaught, q, h>>

\* No checkDatabaseHealth() call is in progress.
HealthIdle ==
    [pc |-> "idle", startTime |-> 0, call |-> 0, p |-> Null, healthy |-> FALSE,
     error |-> NoError, failedAt |-> "", latency |-> 0, held |-> 0]

\* checkDatabaseHealth() from its call to its first await: startTime is read,
\* getDb() awaited.
HealthCall ==
    /\ h.pc = "idle"
    /\ h' = [h EXCEPT !.pc = "getDb", !.startTime = now, !.call = Len(calls) + 1]
    /\ initializeDatabase("getDb", pool, db)

\* checkDatabaseHealth() is called.
checkDatabaseHealth ==
    /\ Running
    /\ HealthCall
    /\ UNCHANGED <<configVars, appVars, handlerVars, faulted, pool, db, connectionRetries, ended, shutdown,
                   nHandled, uncaught, q, now>>

\* getDb() resolves: getPool() is awaited, a second initializeDatabase() call.
HealthDbResolved ==
    /\ Running /\ h.pc = "getDb" /\ calls[h.call].pc = "done"
    /\ h' = [h EXCEPT !.pc = "getPool", !.call = Len(calls) + 1]
    /\ initializeDatabase("getDb", pool, db)
    /\ UNCHANGED <<configVars, appVars, handlerVars, faulted, pool, db, connectionRetries, ended, shutdown,
                   nHandled, uncaught, q, now>>

\* getPool() resolves: p.connect() is awaited on the pool it returned.
HealthPoolResolved ==
    /\ Running /\ h.pc = "getPool" /\ calls[h.call].pc = "done"
    /\ h' = [h EXCEPT !.pc = "connect", !.p = calls[h.call].ret[1]]
    /\ UNCHANGED <<configVars, appVars, handlerVars, faulted, pool, db, connectionRetries, ended, calls,
                   shutdown, nHandled, uncaught, q, now>>

\* getDb() or getPool() rejects with the error initializeDatabase() threw.
HealthInitRejected ==
    /\ Running /\ h.pc \in {"getDb", "getPool"} /\ calls[h.call].pc = "failed"
    /\ h' = HealthFailure(h, calls[h.call].thrown, "init", now)
    /\ UNCHANGED <<configVars, appVars, handlerVars, faulted, pool, db, connectionRetries, ended, calls,
                   shutdown, nHandled, uncaught, q, now>>

\* p.connect() resolves: client.query('SELECT 1') is awaited.
HealthConnectOk ==
    /\ Running /\ h.pc = "connect"
    /\ h' = [h EXCEPT !.pc = "query", !.held = @ + 1]
    /\ UNCHANGED <<configVars, appVars, handlerVars, faulted, pool, db, connectionRetries, ended, calls,
                   shutdown, nHandled, uncaught, q, now>>

\* p.connect() rejects.
HealthConnectFail ==
    /\ Running /\ h.pc = "connect"
    /\ \E code \in ErrCodes :
         h' = HealthFailure(h, AttemptError(code, 0), "connect", now)
    /\ UNCHANGED <<configVars, appVars, handlerVars, faulted, pool, db, connectionRetries, ended, calls,
                   shutdown, nHandled, uncaught, q, now>>

\* client.query('SELECT 1') resolves: the latency is read, the client released.
HealthQueryOk ==
    /\ Running /\ h.pc = "query"
    /\ h' = HealthSuccess([h EXCEPT !.held = ReleaseClient(@, TRUE)], now)
    /\ UNCHANGED <<configVars, appVars, handlerVars, faulted, pool, db, connectionRetries, ended, calls,
                   shutdown, nHandled, uncaught, q, now>>

\* client.query('SELECT 1') rejects: the client is released, then the catch block.
HealthQueryFail ==
    /\ Running /\ h.pc = "query"
    /\ \E code \in ErrCodes :
         h' = HealthFailure([h EXCEPT !.held = ReleaseClient(@, FALSE)],
                            AttemptError(code, 0), "query", now)
    /\ UNCHANGED <<configVars, appVars, handlerVars, faulted, pool, db, connectionRetries, ended, calls,
                   shutdown, nHandled, uncaught, q, now>>

\* ------------------------------------------------------ serverless entrypoints
\* handler invocations considered
MaxRequests == 2
Requests == 1..MaxRequests

\* The entry modules: the long-running server, the serverless entrypoint that
\* checks the database first, and the plain serverless entrypoint.
ServerEntry == "server/index.ts"
HealthEntry == "unnamed/part_000"
PlainEntry == "api/index.ts"

\* What registerRoutes(app) rejects with: an Error whose message contains
\* 'database', one whose code is 57P01, one whose code is ECONNREFUSED, and one
\* with neither.
RouteErrors ==
    {[mentionsDatabase |-> TRUE, code |-> "none"],
     [mentionsDatabase |-> FALSE, code |-> "57P01"],
     [mentionsDatabase |-> FALSE, code |-> "ECONNREFUSED"],
     [mentionsDatabase |-> FALSE, code |-> "none"]}
NoRouteError == [mentionsDatabase |-> FALSE, code |-> ""]

\* The middleware every entry module installs at load, in app.use() order.
BaseStack ==
    <<"cors", "compression", "json", "urlencoded", "timeouts", "logging">>

\* The app's stack when the entry module has been loaded.  The long-running
\* server installs its error handler in its bootstrap, after registerRoutes;
\* the health-checking entrypoint installs it at load and calls
\* registerRoutes(app) from its handler; the plain entrypoint calls
\* registerRoutes(app) at load and installs the error handler in the same
\* tick, so the routes precede it when registerRoutes adds them before its
\* first await (sync) and follow it otherwise.
LoadedStack(entry, sync) ==
    IF entry = ServerEntry THEN BaseStack
    ELSE IF entry = PlainEntry /\ sync
    THEN BaseStack \o <<"routes", "errorHandler">>
    ELSE Append(BaseStack, "errorHandler")

\* The stack once registerRoutes(app) has added the routes: app.get(), app.post()
\* ... append to the stack, as app.use() does.
WithRoutes(st) ==
    IF \E i \in DOMAIN st : st[i] = "routes" THEN st ELSE Append(st, "routes")

\* Where Express takes an error raised by the layer at position i: to the first
\* error-handling middleware (four parameters) after it in the stack, and to
\* its built-in final handler when there is none.
ErrorSink(st, i) ==
    IF \E j \in DOMAIN st : j > i /\ st[j] = "errorHandler"
    THEN "errorHandler" ELSE "finalhandler"

\* ----------------------------------------------------------------------- CORS
\* An environment variable that is not set, and a request without an Origin
\* header: the code tests both for truthiness only, which an empty value
\* fails as an absent one does.
Unset == ""
NoOrigin == ""

\* const allowedOrigins = [...]: the built-in development origins.
BuiltInOrigins ==
    <<"http://localhost:3000", "http://localhost:5000", "http://localhost:5173",
      "http://127.0.0.1:3000", "http://127.0.0.1:5000", "http://127.0.0.1:5173",
      "http://0.0.0.0:3000", "http://0.0.0.0:5000", "http://0.0.0.0:5173">>

\* `https://${process.env.VERCEL_URL}`
VercelOrigin(url) == "https://" \o url

\* allowedOrigins when the entry module has been loaded: in production mode
\* the origin of VERCEL_URL and FRONTEND_URL are pushed, each when it is set.
AllowedOrigins(prod, vercel, frontend) ==
    IF prod
    THEN BuiltInOrigins
           \o (IF vercel # Unset THEN << VercelOrigin(vercel) >> ELSE << >>)
           \o (IF frontend # Unset THEN << frontend >> ELSE << >>)
    ELSE BuiltInOrigins

\* allowedOrigins.includes(origin)
Includes(list, origin) == \E i \in DOMAIN list : list[i] = origin

\* A callback without the development branch: an origin outside the list is
\* rejected in every mode.
OriginAllowed_Strict(origin, list, prod) ==
    origin = NoOrigin \/ Includes(list, origin)

\* The origin callback of cors(): callback(null, true) is TRUE,
\* callback(new Error('Not allowed by CORS policy')) is FALSE.
OriginAllowed(origin, list, prod) ==
    IF origin = NoOrigin \/ Includes(list, origin)
    THEN TRUE
    ELSE IF ~prod THEN TRUE ELSE FALSE

\* The values the environment and a request's Origin header take: a
\* deployment host, a frontend origin (one outside the built-in list, one in
\* it), and origins no list holds.
VercelUrls == {Unset, "app.vercel.app"}
FrontendUrls == {Unset, "https://front.example", "http://localhost:5173"}
Origins ==
    {NoOrigin, "http://localhost:3000", "http://localhost:5173",
     "https://app.vercel.app", "http://app.vercel.app", "app.vercel.app",
     "https://front.example", "https://evil.example"}

\* The origin callback has not run.
NoCors == [called |-> FALSE, origin |-> NoOrigin, allowed |-> FALSE]

\* A request reaches the cors middleware of the app: the origin callback
\* decides on its Origin header.
CorsOrigin(o) ==
    /\ Running
    /\ cors' = [called |-> TRUE, origin |-> o,
                allowed |-> OriginAllowed(o, AllowedOrigins(production, vercelUrl,
                                                           frontendUrl),
                                         production)]
    /\ UNCHANGED <<configVars, stack, handlerVars, faulted, pool, db,
                   connectionRetries, ended, calls, shutdown, nHandled,
                   uncaught, helperVars>>


\* A registerRoutes(app) call whose promise is pending.
PendingRegistration == [status |-> "pending", error |-> NoRouteError]

\* A handler invocation that has not arrived.
IdleRequest ==
    [pc |-> "idle", checks |-> 0, healthy |-> FALSE, failedAt |-> "",
     exhausted |-> FALSE, awaits |-> Null, started |-> Null,
     dispatched |-> FALSE, sent |-> <<>>, rejected |-> FALSE,
     error |-> NoRouteError]

\* Invocations are numbered in their order of arrival.
Arrives(r) == req[r].pc = "idle" /\ (r > 1 => req[r - 1].pc # "idle")

\* A gate that lets every result through.
HealthGate_Ignored(healthy) == FALSE

\* if (!dbHealth.healthy)
HealthGate(healthy) == ~healthy

\* A test that registers on every call.
NeedsRegistration_Always(ready) == TRUE

\* if (!routesReady)
NeedsRegistration(ready) == ready = Null

\* A catch block that keeps the rejected promise.
AfterRegisterFailure_Cached(ready) == ready

\* routesReady = null; // Reset so we can try again
AfterRegisterFailure(ready) == Null

\* A dispatch that does not wait for the promise to settle.
CanDispatch_NoAwait(status) == status \in {"pending", "resolved"}

\* await initializeRoutes() / await routesReady: the handler goes on to
\* app(req, res) when the promise has resolved.
CanDispatch(status) == status = "resolved"

\* The test without ECONNREFUSED.
IsDatabaseError_NoRefused(err) == err.mentionsDatabase \/ err.code = "57P01"

\* error.message?.includes('database') || error.code === '57P01' ||
\* error.code === 'ECONNREFUSED'
IsDatabaseError(err) ==
    err.mentionsDatabase \/ err.code = "57P01" \/ err.code = "ECONNREFUSED"

\* The status the catch block of the handler answers with.
CatchStatus(err) == IF IsDatabaseError(err) THEN 503 ELSE 500

\* initializeRoutes(): start a registration when none is remembered, and
\* return the remembered promise.
initializeRoutes ==
    IF NeedsRegistration(routesReady)
    THEN /\ registrations' = Append(registrations, PendingRegistration)
         /\ routesReady' = Len(registrations) + 1
    ELSE UNCHANGED <<routesReady, registrations>>

\* The handler of the health-checking entrypoint is invoked: it runs to its
\* await of checkDatabaseHealth().  The health checks of two invocations are
\* taken one after the other.
HandlerStart(r) ==
    /\ Running /\ entrypoint = HealthEntry /\ Arrives(r)
    /\ HealthCall
    /\ req' = [req EXCEPT ![r].pc = "health", ![r].checks = @ + 1]
    /\ UNCHANGED <<configVars, appVars, faulted, entrypoint, routesReady, registrations,
                   pool, db, connectionRetries, ended, shutdown, nHandled,
                   uncaught, q, now>>

\* checkDatabaseHealth() has returned: answer 503 when it reports unhealthy,
\* else call initializeRoutes() and await the promise it returns.
HandlerHealthReturned(r) ==
    /\ Running /\ entrypoint = HealthEntry
    /\ req[r].pc = "health" /\ h.pc = "returned"
    /\ h' = HealthIdle
    /\ IF HealthGate(h.healthy)
       THEN /\ req' = [req EXCEPT ![r].pc = "done", ![r].healthy = h.healthy,
                                  ![r].failedAt = h.failedAt,
                                  ![r].exhausted = (h.error.attempt = maxConnectionRetries),
                                  ![r].sent = Append(@, 503)]
            /\ UNCHANGED <<routesReady, registrations>>
       ELSE /\ initializeRoutes
            /\ req' = [req EXCEPT ![r].pc = "routes", ![r].healthy = h.healthy,
                                  ![r].failedAt = h.failedAt,
                                  ![r].exhausted = (h.error.attempt = maxConnectionRetries),
                                  ![r].awaits = routesReady',
                                  ![r].started =
                                      IF Len(registrations') > Len(registrations)
                                      THEN Len(registrations') ELSE Null]
    /\ UNCHANGED <<configVars, appVars, faulted, entrypoint, pool, db, connectionRetries,
                   ended, calls, shutdown, nHandled, uncaught, q, now>>

\* registerRoutes(app) resolves: the routes are on the app.
RegisterOk(k) ==
    /\ Running /\ entrypoint \in {HealthEntry, PlainEntry}
    /\ k \in 1..Len(registrations) /\ registrations[k].status = "pending"
    /\ registrations' = [registrations EXCEPT ![k].status = "resolved"]
    /\ stack' = WithRoutes(stack)
    /\ UNCHANGED <<configVars, cors, faulted, entrypoint, routesReady, req, pool, db,
                   connectionRetries, ended, calls, shutdown, nHandled,
                   uncaught, helperVars>>

\* registerRoutes(app) rejects in the health-checking entrypoint: the catch
\* block forgets the promise and rethrows.
RegisterFail(k) ==
    /\ Running /\ entrypoint = HealthEntry
    /\ k \in 1..Len(registrations) /\ registrations[k].status = "pending"
    /\ \E err \in RouteErrors :
         registrations' = [registrations EXCEPT ![k].status = "rejected",
                                                ![k].error = err]
    /\ routesReady' = AfterRegisterFailure(routesReady)
    /\ UNCHANGED <<configVars, appVars, faulted, entrypoint, req, pool, db,
                   connectionRetries, ended, calls, shutdown, nHandled,
                   uncaught, helperVars>>

\* The promise awaited has resolved: app(req, res).
HandlerRoutesReady(r) ==
    /\ Running /\ entrypoint = HealthEntry
    /\ req[r].pc = "routes" /\ CanDispatch(registrations[req[r].awaits].status)
    /\ req' = [req EXCEPT ![r].pc = "done", ![r].dispatched = TRUE]
    /\ UNCHANGED <<configVars, appVars, faulted, entrypoint, routesReady, registrations,
                   pool, db, connectionRetries, ended, calls, shutdown,
                   nHandled, uncaught, helperVars>>

\* The promise awaited has rejected: the catch block of the handler answers
\* 503 or 500.
HandlerRoutesFailed(r) ==
    /\ Running /\ entrypoint = HealthEntry
    /\ req[r].pc = "routes" /\ registrations[req[r].awaits].status = "rejected"
    /\ req' = [req EXCEPT ![r].pc = "done",
                          ![r].error = registrations[req[r].awaits].error,
                          ![r].sent =
                              Append(@, CatchStatus(registrations[req[r].awaits].error))]
    /\ UNCHANGED <<configVars, appVars, faulted, entrypoint, routesReady, registrations,
                   pool, db, connectionRetries, ended, calls, shutdown,
                   nHandled, uncaught, helperVars>>

\* registerRoutes(app) rejects in the plain entrypoint: routesReady is a
\* constant, the rejected promise stays.
ApiRegisterFail(k) ==
    /\ Running /\ entrypoint = PlainEntry
    /\ k \in 1..Len(registrations) /\ registrations[k].status = "pending"
    /\ \E err \in RouteErrors :
         registrations' = [registrations EXCEPT ![k].status = "rejected",
                                                ![k].error = err]
    /\ UNCHANGED <<configVars, appVars, faulted, entrypoint, routesReady, req, pool, db,
                   connectionRetries, ended, calls, shutdown, nHandled,
                   uncaught, helperVars>>

\* The handler of the plain entrypoint is invoked: await routesReady.
ApiHandler(r) ==
    /\ Running /\ entrypoint = PlainEntry /\ Arrives(r)
    /\ req' = [req EXCEPT ![r].pc = "routes", ![r].awaits = routesReady]
    /\ UNCHANGED <<configVars, appVars, faulted, entrypoint, routesReady, registrations,
                   pool, db, connectionRetries, ended, calls, shutdown,
                   nHandled, uncaught, helperVars>>

\* routesReady has resolved: app(req, res).
ApiDispatch(r) ==
    /\ Running /\ entrypoint = PlainEntry
    /\ req[r].pc = "routes" /\ CanDispatch(registrations[req[r].awaits].status)
    /\ req' = [req EXCEPT ![r].pc = "done", ![r].dispatched = TRUE]
    /\ UNCHANGED <<configVars, appVars, faulted, entrypoint, routesReady, registrations,
                   pool, db, connectionRetries, ended, calls, shutdown,
                   nHandled, uncaught, helperVars>>

\* routesReady has rejected: the handler has no try block and rejects.
ApiRejected(r) ==
    /\ Running /\ entrypoint = PlainEntry
    /\ req[r].pc = "routes" /\ registrations[req[r].awaits].status = "rejected"
    /\ req' = [req EXCEPT ![r].pc = "done", ![r].rejected = TRUE,
                          ![r].error = registrations[req[r].awaits].error]
    /\ UNCHANGED <<configVars, appVars, faulted, entrypoint, routesReady, registrations,
                   pool, db, connectionRetries, ended, calls, shutdown,
                   nHandled, uncaught, helperVars>>

\* The bootstrap of the long-running server goes on after
\* await registerRoutes(app): it installs the error handler, then the frontend
\* (serveStatic in production, the Vite middleware otherwise).
ServerRoutesRegistered ==
    /\ Running /\ entrypoint = ServerEntry
    /\ stack = BaseStack
    /\ stack' = WithRoutes(stack)
                  \o <<"errorHandler", IF production THEN "static" ELSE "vite">>
    /\ UNCHANGED <<configVars, cors, handlerVars, faulted, pool, db,
                   connectionRetries, ended, calls, shutdown, nHandled,
                   uncaught, helperVars>>

\* --------------------------------------------------------------------- getPool
\* fast-path getPool() calls considered
MaxPoolCalls == 1

\* A request handler calls getPool() while a pair is stored (the calls made
\* while none is stored are those of getDb).
getPool ==
    /\ Running
    /\ HasStoredPair(pool, db)
    /\ Cardinality({c \in 1..Len(calls) : calls[c].kind = "getPool"}) < MaxPoolCalls
    /\ initializeDatabase("getPool", pool, db)
    /\ UNCHANGED <<configVars, appVars, handlerVars, faulted, pool, db, connectionRetries,
                   ended, shutdown, nHandled, uncaught, helperVars>>

\* ------------------------------------------------------------- specification
\* The module has been loaded: the eager initializeDatabase() call has made its
\* first pool and awaits connect; the signal handlers are registered.
InitDb ==
    /\ production \in BOOLEAN
    /\ hasDatabaseUrl \in BOOLEAN
    /\ pool = Null
    /\ db = Null
    /\ connectionRetries = 0
    /\ ended = {}
    /\ calls = LoadCalls(hasDatabaseUrl)
    /\ shutdown = [s \in Signals |->
                      [pc |-> "idle", failed |-> FALSE, endCalled |-> Null]]
    /\ nHandled = 0
    /\ uncaught = FALSE
    /\ q = [pc |-> "idle", maxRetries |-> 0, attempt |-> 0, call |-> 0,
            invoked |-> 0, opFails |-> 0, dbFails |-> 0, waits |-> <<>>,
            codes |-> <<>>, lastError |-> NoQueryError, thrown |-> NoQueryError,
            result |-> 0]
    /\ h = HealthIdle
    /\ now = 0
    /\ faulted = {}

\* The long-running server: no serverless handler is installed.
Init ==
    /\ InitDb
    /\ entrypoint = ServerEntry
    /\ routesReady = Null
    /\ registrations = << >>
    /\ req = [r \in Requests |-> IdleRequest]
    /\ vercelUrl = Unset /\ frontendUrl = Unset
    /\ stack = LoadedStack(entrypoint, FALSE)
    /\ cors = NoCors

\* A serverless function: the entry module has been loaded.  The
\* health-checking entrypoint starts with no routes-ready promise; the plain
\* one has called registerRoutes(app) and keeps its promise.  No step of a
\* handler, nor of the calls it makes, reads the mode: one mode is considered.
InitServerless ==
    /\ InitDb
    /\ production
    /\ entrypoint \in {HealthEntry, PlainEntry}
    /\ registrations = IF entrypoint = PlainEntry
                       THEN << PendingRegistration >> ELSE << >>
    /\ routesReady = IF entrypoint = PlainEntry THEN 1 ELSE Null
    /\ req = [r \in Requests |-> IdleRequest]
    /\ vercelUrl = Unset /\ frontendUrl = Unset
    /\ \E sync \in BOOLEAN : stack = LoadedStack(entrypoint, sync)
    /\ cors = NoCors

\* The steps of the module: the settling of a promise some call awaits, a
\* request handler's getDb()/getPool(), a run of handlePoolError, a pool's
\* 'error' event.
Next ==
    \/ \E c \in 1..Len(calls) : ConnectOk(c)
    \/ \E c \in 1..Len(calls) : ConnectFail(c)
    \/ \E c \in 1..Len(calls) : QueryOk(c)
    \/ \E c \in 1..Len(calls) : QueryFail(c)
    \/ \E c \in 1..Len(calls) : TimerFire(c)
    \/ getDb
    \/ \E p \in Faultable : handlePoolError(p)
    \/ \E p \in OpenPools : PoolFault(p)

\* A signal handler's gracefulShutdown run.
ShutdownStep ==
    \/ \E s \in Signals : ShutdownStart(s)
    \/ \E s \in Signals : ShutdownEnd(s)
    \/ \E s \in Signals : ShutdownEndFail(s)

NextShutdown == Next \/ ShutdownStep

Spec == Init /\ [][Next]_vars

SpecShutdown == Init /\ [][NextShutdown]_vars

\* The writers of the stored pair: the initializeDatabase() calls of the module
\* (the eager one and those handlePoolError starts), handlePoolError and the
\* gracefulShutdown runs.
NextPair ==
    \/ \E c \in 1..Len(calls) : ConnectOk(c)
    \/ \E c \in 1..Len(calls) : ConnectFail(c)
    \/ \E c \in 1..Len(calls) : QueryOk(c)
    \/ \E c \in 1..Len(calls) : QueryFail(c)
    \/ \E c \in 1..Len(calls) : TimerFire(c)
    \/ \E p \in Faultable : handlePoolError(p)
    \/ ShutdownStep

SpecPair == Init /\ [][NextPair]_vars

\* One queryWithRetry() call beside the eager initialization.
NextQuery ==
    \/ \E c \in 1..Len(calls) : ConnectOk(c)
    \/ \E c \in 1..Len(calls) : ConnectFail(c)
    \/ \E c \in 1..Len(calls) : QueryOk(c)
    \/ \E c \in 1..Len(calls) : QueryFail(c)
    \/ \E c \in 1..Len(calls) : TimerFire(c)
    \/ \E m \in Budgets : queryWithRetry(m)
    \/ QueryDbResolved
    \/ QueryDbRejected
    \/ QueryOpOk
    \/ QueryOpFail
    \/ QueryTimer

SpecQuery == Init /\ [][NextQuery]_vars

\* One checkDatabaseHealth() call beside the eager initialization.
NextHealth ==
    \/ \E c \in 1..Len(calls) : ConnectOk(c)
    \/ \E c \in 1..Len(calls) : ConnectFail(c)
    \/ \E c \in 1..Len(calls) : QueryOk(c)
    \/ \E c \in 1..Len(calls) : QueryFail(c)
    \/ \E c \in 1..Len(calls) : TimerFire(c)
    \/ Tick
    \/ checkDatabaseHealth
    \/ HealthDbResolved
    \/ HealthPoolResolved
    \/ HealthInitRejected
    \/ HealthConnectOk
    \/ HealthConnectFail
    \/ HealthQueryOk
    \/ HealthQueryFail

SpecHealth == Init /\ [][NextHealth]_vars

\* Handler invocations of a serverless function beside the eager
\* initialization.
NextHandler ==
    \/ \E c \in 1..Len(calls) : ConnectOk(c)
    \/ \E c \in 1..Len(calls) : ConnectFail(c)
    \/ \E c \in 1..Len(calls) : QueryOk(c)
    \/ \E c \in 1..Len(calls) : QueryFail(c)
    \/ \E c \in 1..Len(calls) : TimerFire(c)
    \/ HealthDbResolved
    \/ HealthPoolResolved
    \/ HealthInitRejected
    \/ HealthConnectOk
    \/ HealthConnectFail
    \/ HealthQueryOk
    \/ HealthQueryFail
    \/ \E r \in Requests : HandlerStart(r)
    \/ \E r \in Requests : HandlerHealthReturned(r)
    \/ \E k \in 1..Len(registrations) : RegisterOk(k)
    \/ \E k \in 1..Len(registrations) : RegisterFail(k)
    \/ \E r \in Requests : HandlerRoutesReady(r)
    \/ \E r \in Requests : HandlerRoutesFailed(r)
    \/ \E k \in 1..Len(registrations) : ApiRegisterFail(k)
    \/ \E r \in Requests : ApiHandler(r)
    \/ \E r \in Requests : ApiDispatch(r)
    \/ \E r \in Requests : ApiRejected(r)

SpecHandler == InitServerless /\ [][NextHandler]_vars

\* The three entry modules: the handler invocations of the serverless ones and
\* the bootstrap of the long-running server.
InitApp == InitServerless \/ (Init /\ production)

NextApp == NextHandler \/ ServerRoutesRegistered

SpecApp == InitApp /\ [][NextApp]_vars

\* An entry module loaded under some environment, and the requests that reach
\* its cors middleware.
InitCors ==
    /\ InitDb
    /\ entrypoint \in {ServerEntry, HealthEntry, PlainEntry}
    /\ registrations = IF entrypoint = PlainEntry
                       THEN << PendingRegistration >> ELSE << >>
    /\ routesReady = IF entrypoint = PlainEntry THEN 1 ELSE Null
    /\ req = [r \in Requests |-> IdleRequest]
    /\ vercelUrl \in VercelUrls /\ frontendUrl \in FrontendUrls
    /\ \E sync \in BOOLEAN : stack = LoadedStack(entrypoint, sync)
    /\ cors = NoCors

NextCors == \E o \in Origins : CorsOrigin(o)

SpecCors == InitCors /\ [][NextCors]_vars

\* getPool() calls made with a pair stored, beside the steps of the module.
NextReplace == Next \/ getPool

SpecReplace == Init /\ [][NextReplace]_vars

\* The steps of initializeDatabase() call c: the settling of the connect, the
\* query or the backoff timer it awaits.
CallStep(c) ==
    \/ ConnectOk(c)
    \/ ConnectFail(c)
    \/ QueryOk(c)
    \/ QueryFail(c)
    \/ TimerFire(c)

\* The module loaded in production mode, where handlePoolError starts calls
\* (in the other modes it only logs).
InitLive == Init /\ production /\ hasDatabaseUrl

\* The initializeDatabase() calls among the other operations of the module
\* that read or write the stored pair: getDb(), handlePoolError and a
\* gracefulShutdown run.  Both signals run the same function and no step of
\* a call reads what a run writes after the call was made: one signal is
\* considered.
NextLive ==
    \/ \E c \in 1..Len(calls) : ConnectOk(c)
    \/ \E c \in 1..Len(calls) : ConnectFail(c)
    \/ \E c \in 1..Len(calls) : QueryOk(c)
    \/ \E c \in 1..Len(calls) : QueryFail(c)
    \/ \E c \in 1..Len(calls) : TimerFire(c)
    \/ getDb
    \/ \E p \in Faultable : handlePoolError(p)
    \/ ShutdownStart("SIGTERM")
    \/ ShutdownEnd("SIGTERM")
    \/ ShutdownEndFail("SIGTERM")

\* Every connect, query and timer a call awaits settles:
\* connectionTimeoutMillis bounds a connect and the event loop runs a due
\* timer; that the liveness query is answered or fails is assumed.
Fairness == \A c \in 1..(1 + MaxCalls) : WF_vars(CallStep(c))

SpecLive == InitLive /\ [][NextLive]_vars /\ Fairness

\* ================================================================= properties
Calls == 1..Len(calls)

\* The calls that ran the retry loop, and the liveness queries they issued when
\* no attempt has failed (one per call that got past connect).
SlowCalls == {c \in Calls : calls[c].attempt >= 1}
NoFailureYet == \A c \in Calls : calls[c].fails = 0

\* C1: with a backing store on which every connect and liveness query succeeds,
\* and no pool fault handled, the initializeDatabase() calls made while no pool
\* is stored (the eager one and the getDb()/getPool() calls that overlap it)
\* construct one pool between them, issue one liveness query, and return the
\* same pool/client pair.
C1_ExactlyOnce ==
    (NoFailureYet /\ nHandled = 0) =>
        /\ Cardinality(Constructed) <= 1
        /\ Cardinality({c \in SlowCalls : calls[c].pc \in {"query", "done"}}) <= 1
        /\ \A c, d \in Calls :
             (calls[c].pc = "done" /\ calls[d].pc = "done")
                 => calls[c].ret = calls[d].ret

\* C2: at most one pool that has been constructed and not ended exists.
C2_AtMostOneOpenPool == Cardinality(OpenPools) <= 1

\* C3: a getDb()/getPool() call made while a pool/client pair is stored returns
\* that pair in the step of the call, with no attempt, no pool constructed, no
\* wait, and pool, db and connectionRetries unchanged.
C3_FastPath ==
    [][ (/\ Len(calls') = Len(calls) + 1
         /\ calls'[Len(calls')].kind = "getDb"
         /\ pool # Null /\ db # Null)
        => LET r == calls'[Len(calls')] IN
           /\ r.pc = "done"
           /\ r.ret = <<pool, db>>
           /\ r.attempt = 0
           /\ r.waits = <<>>
           /\ Constructed' = Constructed
           /\ UNCHANGED <<pool, db, connectionRetries, ended>> ]_vars

\* A getDb() call has returned the stored pair by the fast path.
C3_Witness ==
    \E c \in Calls :
        /\ calls[c].kind = "getDb" /\ calls[c].pc = "done" /\ calls[c].attempt = 0
        /\ calls[c].ret = <<pool, db>> /\ pool # Null

\* C4: a call that succeeds after k failed attempts (k in 0..2) has made k+1
\* attempts, has waited i x 1000 ms after failed attempt i and at no other time,
\* and stores and returns the pool of attempt k+1 with the client built on it.
C4_BoundedRetry ==
    [][ \A c \in Calls :
          (calls[c].pc # "done" /\ calls'[c].pc = "done")
          => LET r == calls'[c] IN
             /\ r.fails \in 0..2
             /\ r.attempt = r.fails + 1
             /\ r.waits = [i \in 1..r.fails |-> i * 1000]
             /\ r.newPool = PoolId(c, r.attempt)
             /\ r.ret = <<r.newPool, r.newPool>>
             /\ pool' = r.newPool /\ db' = r.newPool
             /\ connectionRetries' = 0 ]_vars

\* A call has succeeded on its third attempt, after waits of 1000 and 2000 ms.
C4_Witness ==
    \E c \in Calls :
        /\ calls[c].pc = "done" /\ calls[c].fails = 2
        /\ calls[c].waits = <<1000, 2000>> /\ pool = calls[c].newPool

\* C5: a call raises only after three failed attempts, with waits of 1000 and
\* 2000 ms and none after the third; it raises the error of the third attempt,
\* the raising step leaves pool and db as they are, and when it is the only
\* call made they are absent.
C5_Exhaustion ==
    [][ \A c \in Calls :
          (calls[c].pc # "failed" /\ calls'[c].pc = "failed")
          => LET r == calls'[c] IN
             /\ r.attempt = 3 /\ r.fails = 3
             /\ r.waits = <<1000, 2000>>
             /\ r.thrown.attempt = 3 /\ r.thrown.code \in ErrCodes
             /\ UNCHANGED <<pool, db>>
             /\ (Len(calls) = 1 => pool' = Null /\ db' = Null) ]_vars

\* The only call made has failed three times and raised: nothing is stored.
C5_Witness ==
    /\ Len(calls) = 1 /\ calls[1].pc = "failed" /\ calls[1].fails = 3
    /\ pool = Null /\ db = Null

\* C6: within one queryWithRetry call every failure but the last carried code
\* 57P01 (so query() is invoked again only after such a failure); a query()
\* failure with another code ends the call in that step with that error and no
\* wait after it, after one invocation when it is the first failure; and a
\* call that returns has invoked query() once more than query() failed, at
\* most three times, and returns the result of the last invocation.
C6_SelectiveRetry ==
    /\ \A i \in 1..Len(q.codes) :
         (i < Len(q.codes) \/ q.pc # "failed") => q.codes[i] = "57P01"
    /\ Len(q.waits) = (IF q.pc = "failed" THEN Len(q.codes) - 1 ELSE Len(q.codes))
    /\ (q.pc = "failed" /\ q.thrown.src = "op" /\ q.thrown.code # "57P01")
         => /\ q.thrown.attempt = q.attempt
            /\ q.thrown = q.lastError
            /\ (Len(q.codes) = 1 => q.invoked = 1)
    /\ \A i \in 1..Len(q.codes) :
         (q.codes[i] # "57P01") => (q.pc = "failed" /\ q.thrown.code = q.codes[i])
    /\ (q.pc = "done")
         => /\ q.invoked = q.opFails + 1
            /\ q.opFails <= 2
            /\ q.result = q.invoked

\* query() failed twice with 57P01 and its third invocation succeeded.
C6_Witness ==
    /\ q.pc = "done" /\ q.opFails = 2 /\ q.invoked = 3
    /\ q.codes = <<"57P01", "57P01">> /\ q.dbFails = 0

\* A finished call in which query() was invoked and every failure carried 57P01.
AlwaysAdminShutdown ==
    /\ q.pc = "failed" /\ q.maxRetries = DefaultMaxRetries
    /\ q.invoked >= 1 /\ q.opFails = q.invoked
    /\ \A i \in 1..Len(q.codes) : q.codes[i] = "57P01"

\* C7 as stated: with the default budget query() is invoked at most 3 times,
\* and when it always fails with 57P01 it is invoked exactly 3 times, with
\* waits of 1000 and 2000 ms, and the error of the third attempt is raised.
C7_Original ==
    /\ (q.maxRetries = DefaultMaxRetries) => q.invoked <= 3
    /\ AlwaysAdminShutdown
         => /\ q.invoked = 3
            /\ q.waits = <<1000, 2000>>
            /\ q.thrown.attempt = 3

\* C7 amended: with the default budget query() is invoked at most 3 times; when
\* it always fails with 57P01 the call makes exactly 3 attempts, waits 1000 ms
\* after the first and 2000 ms after the second and not after the third, raises
\* the error of the third attempt, and has invoked query() once per attempt
\* whose getDb() resolved: exactly 3 times when getDb() resolved on every one.
C7_RetryBudget ==
    /\ (q.maxRetries = DefaultMaxRetries) => q.invoked <= 3
    /\ AlwaysAdminShutdown
         => /\ q.attempt = 3
            /\ q.waits = <<1000, 2000>>
            /\ q.thrown.attempt = 3 /\ q.thrown.src = "op"
            /\ q.thrown = q.lastError
            /\ q.invoked = 3 - q.dbFails
            /\ (q.dbFails = 0 => q.invoked = 3)

\* query() failed three times with 57P01 and getDb() resolved each time.
C7_Witness ==
    AlwaysAdminShutdown /\ q.dbFails = 0 /\ q.invoked = 3

\* C8: checkDatabaseHealth() never raises; a failure of initialization, of
\* connect or of the liveness query makes it return healthy = false with the
\* error and a latency >= 0 in the step of the failure, and it returns
\* healthy = true, with a latency >= 0, exactly when no step failed.
C8_HealthNeverThrows ==
    /\ h.pc \in {"idle", "getDb", "getPool", "connect", "query", "returned"}
    /\ (h.failedAt # "") => (h.pc = "returned" /\ ~h.healthy)
    /\ (h.pc = "returned")
         => /\ h.latency >= 0
            /\ h.healthy = (h.failedAt = "")
            /\ h.healthy = (h.error = NoError)

\* A health check has returned unhealthy after initialization ran out of
\* attempts, with time elapsed since its start.
C8_Witness ==
    /\ h.pc = "returned" /\ ~h.healthy /\ h.failedAt = "init"
    /\ h.error.attempt = 3 /\ h.latency > 0

\* C9: a run of handlePoolError in production clears pool and db and starts an
\* initializeDatabase() call (its first pool made, connect pending); a run in
\* any other mode leaves pool, db, connectionRetries and the calls as they
\* are; and a call so started that fails has its error logged, not handed to
\* a caller.
C9_AutoHeal ==
    [][ /\ (nHandled' # nHandled)
          => IF production
             THEN /\ pool' = Null /\ db' = Null
                  /\ Len(calls') = Len(calls) + 1
                  /\ calls'[Len(calls')].kind = "heal"
                  /\ calls'[Len(calls')].pc = "connect"
                  /\ calls'[Len(calls')].attempt = 1
                  /\ \A c \in Calls : calls'[c] = calls[c]
             ELSE UNCHANGED <<pool, db, connectionRetries, calls, ended>>
        /\ \A c \in 1..Len(calls') :
             (calls'[c].kind = "heal")
                 => /\ production
                    /\ (calls'[c].pc = "failed" => calls'[c].sink = "logged") ]_vars

\* handlePoolError ran in production, and the call it started has failed.
C9_Witness ==
    /\ production /\ nHandled = 1
    /\ \E c \in Calls :
         calls[c].kind = "heal" /\ calls[c].pc = "failed" /\ calls[c].sink = "logged"

\* C10: no 'error' event of a constructed pool goes without handlePoolError
\* being invoked.  emit dispatches the event synchronously to the listeners
\* the pool has at that moment, so an event that finds no handler then is
\* never delivered to one.
C10_FaultReachesHandler == ~uncaught

\* C11: a gracefulShutdown run never raises; whenever a run completes (after a
\* successful close, after a failed close, with no pool stored, alone or
\* overlapping the run of the other signal) pool and db are both absent; and
\* end() is called on a given pool by at most one run.
C11_IdempotentShutdown ==
    [][ /\ \A s \in Signals :
             /\ shutdown'[s].pc \in {"idle", "ending", "done"}
             /\ (shutdown[s].pc # "done" /\ shutdown'[s].pc = "done")
                    => (pool' = Null /\ db' = Null)
        /\ \A s, t \in Signals :
             (s # t /\ shutdown'[s].endCalled # Null)
                 => shutdown'[s].endCalled # shutdown'[t].endCalled ]_vars

\* C12: when DATABASE_URL is absent at module load the module throws before it
\* constructs a pool: no initializeDatabase() call, eager or on demand, is
\* ever made, no pool is constructed, nothing is stored, and no failure is
\* counted or waited for.
C12_MissingConfigFatal ==
    (~hasDatabaseUrl) =>
        /\ calls = << >>
        /\ Constructed = {}
        /\ pool = Null /\ db = Null
        /\ connectionRetries = 0

\* The module was loaded without DATABASE_URL and has made no call.
C12_Witness == ~hasDatabaseUrl /\ Len(calls) = 0 /\ ~Running

\* The invocations of the health-checking handler whose health check has
\* reported unhealthy.
Unhealthy(r) ==
    entrypoint = HealthEntry /\ req[r].pc \in {"routes", "done"} /\ ~req[r].healthy

\* C13: an invocation whose health check reported unhealthy has answered 503
\* once and nothing else, has neither awaited nor started a route
\* registration, was not dispatched, and made one health check; the step that
\* answers leaves the registrations and the initializeDatabase() calls as
\* they are; an answered invocation takes no further step; and a step that
\* starts a health check or an initializeDatabase() call belongs to an
\* invocation then awaiting its own health check.
C13_UnhealthyIs503 ==
    [][ /\ \A r \in Requests :
             /\ (req[r].pc = "health" /\ req'[r].pc # "health" /\ ~h.healthy)
                    => /\ req'[r].pc = "done"
                       /\ req'[r].sent = <<503>>
                       /\ req'[r].awaits = Null /\ req'[r].started = Null
                       /\ ~req'[r].dispatched /\ ~req'[r].rejected
                       /\ req'[r].checks = 1
                       /\ UNCHANGED <<routesReady, registrations, calls>>
             /\ (req[r].pc = "done") => req'[r] = req[r]
        /\ (entrypoint = HealthEntry
              /\ (Len(calls') > Len(calls) \/ (h.pc = "idle" /\ h'.pc # "idle")))
             => \E r \in Requests : req'[r].pc = "health" /\ req'[r].sent = <<>> ]_vars

\* An invocation was answered 503 because initializeDatabase() ran out of
\* attempts inside its health check.
C13_Witness ==
    \E r \in Requests :
        /\ Unhealthy(r) /\ req[r].pc = "done" /\ req[r].sent = <<503>>
        /\ req[r].failedAt = "init" /\ req[r].exhausted

\* C14: in production, every getDb()/getPool() call that returns, returns the
\* pair stored at its return, whose client wraps its pool, and neither is a
\* pool that has faulted or a client over one: after handlePoolError has
\* cleared the pair and a later initializeDatabase() has succeeded, the calls
\* get the new pair.
C14_ReplacedPoolPickedUp ==
    [][ production =>
          \A c \in 1..Len(calls') :
             (/\ calls'[c].kind \in {"getDb", "getPool"}
              /\ calls'[c].pc = "done"
              /\ (c > Len(calls) \/ calls[c].pc # "done"))
             => /\ calls'[c].ret = <<pool', db'>>
                /\ calls'[c].ret[1] # Null
                /\ calls'[c].ret[2] = calls'[c].ret[1]
                /\ calls'[c].ret[1] \notin faulted'
                /\ calls'[c].ret[2] \notin faulted' ]_vars

\* In production the stored pool faulted, the call handlePoolError started has
\* succeeded, and a later getPool() returned the pool of that call.
C14_Witness ==
    /\ production /\ faulted # {}
    /\ \E c, d \in Calls :
         /\ calls[d].kind = "heal" /\ calls[d].pc = "done"
         /\ calls[c].kind = "getPool" /\ calls[c].pc = "done" /\ c > d
         /\ calls[c].ret = <<calls[d].newPool, calls[d].newPool>>
         /\ calls[c].ret[1] \notin faulted
         /\ \E p \in faulted : \E e \in Calls : calls[e].pc = "done" /\ calls[e].ret[1] = p

NoRegistrationFailed ==
    \A k \in 1..Len(registrations) : registrations[k].status # "rejected"

\* C15: as long as no registration has failed, registerRoutes has been invoked
\* at most once, and every invocation that awaits routes awaits the promise of
\* that one call, which is the promise remembered.
C15_RoutesMemoized ==
    NoRegistrationFailed =>
        /\ Len(registrations) <= 1
        /\ \A r \in Requests :
             (req[r].awaits # Null) => (req[r].awaits = 1 /\ routesReady = 1)
        /\ Cardinality({r \in Requests : req[r].started # Null}) <= 1

\* Two invocations of the health-checking handler await the one pending
\* registration at the same time.
C15_Witness ==
    /\ entrypoint = HealthEntry /\ Len(registrations) = 1
    /\ registrations[1].status = "pending"
    /\ \A r \in Requests : req[r].pc = "routes" /\ req[r].awaits = 1

\* C16: in the health-checking entrypoint, the step in which registerRoutes
\* fails resets the remembered promise to empty, a failed registration is
\* never the remembered promise, an invocation that awaited the failed
\* registration ends with its failure and is not dispatched, and an
\* invocation that reaches initializeRoutes with no promise remembered starts
\* a new registerRoutes call and awaits it.
C16_RoutesRecover ==
    [][ (entrypoint = HealthEntry) =>
          /\ \A k \in 1..Len(registrations) :
               (registrations[k].status = "pending"
                  /\ registrations'[k].status = "rejected")
               => routesReady' = Null
          /\ (routesReady' # Null)
               => registrations'[routesReady'].status # "rejected"
          /\ \A r \in Requests :
               /\ (req[r].pc = "health" /\ req'[r].pc = "routes"
                     /\ routesReady = Null)
                  => /\ Len(registrations') = Len(registrations) + 1
                     /\ registrations'[Len(registrations')].status = "pending"
                     /\ routesReady' = Len(registrations')
                     /\ req'[r].awaits = Len(registrations')
               /\ (req'[r].pc = "done" /\ req'[r].awaits # Null
                     /\ registrations'[req'[r].awaits].status = "rejected")
                  => /\ ~req'[r].dispatched
                     /\ Len(req'[r].sent) = 1
                     /\ req'[r].error = registrations'[req'[r].awaits].error ]_vars

\* The first registration failed, the invocation awaiting it was answered with
\* the failure, and the next invocation started a second registration.
C16_Witness ==
    /\ entrypoint = HealthEntry /\ Len(registrations) = 2
    /\ registrations[1].status = "rejected"
    /\ req[1].pc = "done" /\ req[1].awaits = 1 /\ Len(req[1].sent) = 1
    /\ req[2].awaits = 2 /\ req[2].started = 2 /\ routesReady = 2

\* C17: in both serverless entrypoints an invocation is dispatched to the app
\* only when the registration it awaited has resolved and is the one
\* remembered, with nothing answered by the handler; in the health-checking
\* entrypoint only after its own health check reported healthy.
C17_NoDispatchBeforeReady ==
    \A r \in Requests :
        req[r].dispatched =>
            /\ entrypoint \in {HealthEntry, PlainEntry}
            /\ req[r].awaits # Null
            /\ registrations[req[r].awaits].status = "resolved"
            /\ routesReady = req[r].awaits
            /\ req[r].sent = <<>>
            /\ (entrypoint = HealthEntry)
                 => (req[r].checks = 1 /\ req[r].healthy /\ req[r].failedAt = "")

\* In the health-checking entrypoint the first registration failed and the
\* second invocation was dispatched after the second had resolved.
C17_Witness ==
    /\ entrypoint = HealthEntry
    /\ req[1].pc = "done" /\ ~req[1].dispatched /\ req[1].awaits = 1
    /\ req[2].dispatched /\ req[2].awaits = 2 /\ req[2].healthy
    /\ registrations[2].status = "resolved"

\* C18: an invocation of the health-checking handler never rejects; until it
\* ends it has answered nothing; it ends either dispatched with nothing
\* answered by the handler, or not dispatched with exactly one answer, 503 or
\* 500; and when it caught an error the answer is 503 if the error's message
\* contains 'database' or its code is 57P01 or ECONNREFUSED, and 500 otherwise.
C18_HandlerNeverRejects ==
    (entrypoint = HealthEntry) =>
        \A r \in Requests :
            /\ ~req[r].rejected
            /\ (req[r].pc # "done") => (req[r].sent = <<>> /\ ~req[r].dispatched)
            /\ (req[r].pc = "done")
                 => \/ req[r].dispatched /\ req[r].sent = <<>>
                    \/ ~req[r].dispatched /\ req[r].sent \in {<<503>>, <<500>>}
            /\ (req[r].error # NoRouteError)
                 => req[r].sent =
                      << IF \/ req[r].error.mentionsDatabase
                            \/ req[r].error.code \in {"57P01", "ECONNREFUSED"}
                         THEN 503 ELSE 500 >>

\* One invocation caught ECONNREFUSED (no 'database' in the message) and
\* answered 503; the other caught an error without a code and answered 500.
C18_Witness ==
    /\ entrypoint = HealthEntry
    /\ req[1].pc = "done" /\ req[1].sent = <<503>>
    /\ req[1].error = [mentionsDatabase |-> FALSE, code |-> "ECONNREFUSED"]
    /\ req[2].pc = "done" /\ req[2].sent = <<500>>
    /\ req[2].error = [mentionsDatabase |-> FALSE, code |-> "none"]

\* C19: an initializeDatabase() call and a checkDatabaseHealth() call hold a
\* connection exactly while their liveness query is pending: one is checked
\* out when connect resolves and released once when the query settles, so a
\* call that has returned, raised or is backing off holds none.
C19_ScopedRelease ==
    /\ \A c \in Calls : calls[c].held = (IF calls[c].pc = "query" THEN 1 ELSE 0)
    /\ h.held = (IF h.pc = "query" THEN 1 ELSE 0)

\* A health check whose liveness query failed has returned, and an
\* initializeDatabase() call has raised, both holding no connection.
C19_Witness ==
    /\ h.pc = "returned" /\ h.failedAt = "query" /\ h.held = 0
    /\ \E c \in Calls : calls[c].pc = "failed" /\ calls[c].held = 0
    /\ \E c \in Calls : calls[c].pc = "done" /\ calls[c].held = 0

\* C20: the stored pool is present exactly when the stored client is, and a
\* stored client is the one built over the stored pool.
C20_StoredPairConsistent ==
    /\ (pool = Null) <=> (db = Null)
    /\ (db # Null) => (db = pool)

\* handlePoolError has cleared the pair in production, a later call has stored
\* a new one, and a gracefulShutdown run has completed.
C20_Witness ==
    /\ production /\ nHandled = 1 /\ pool # Null /\ db = pool
    /\ \E c \in Calls : calls[c].kind = "heal" /\ calls[c].pc = "done"
    /\ \E s \in Signals : shutdown[s].pc = "done"

\* C21: when a gracefulShutdown run completes, every pool constructed before
\* that moment has been closed and none of them is stored as a live pool: no
\* pool of an initializeDatabase() call in flight while the run ran is left
\* open, to be stored by that call afterwards.
C21_ShutdownFinal ==
    [][ \A s \in Signals :
          (shutdown[s].pc # "done" /\ shutdown'[s].pc = "done")
              => /\ Constructed \subseteq ended'
                 /\ pool' \notin (Constructed \ ended') ]_vars

\* The pools call c has constructed so far: one per attempt begun.
Attempts(c) ==
    calls[c].fails
      + (IF \/ calls[c].pc \in {"connect", "query"}
            \/ (calls[c].pc = "done" /\ calls[c].newPool # Null)
         THEN 1 ELSE 0)

Finished(c) == Live(c) /\ calls[c].pc \in {"done", "failed"}

\* C22: when every connect, query and timer step completes, every
\* initializeDatabase() call (eager, on demand or started by handlePoolError)
\* eventually returns or raises, having constructed at most
\* maxConnectionRetries pools, however it interleaves with other calls,
\* handlePoolError and gracefulShutdown: no call constructs a fourth pool, and
\* from any moment on a moment comes when every call made so far has returned
\* or raised.
C22_RetryLoopsFinish ==
    /\ [](\A c \in Calls : Attempts(c) <= maxConnectionRetries)
    /\ []<>(\A c \in Calls : Finished(c))

\* Both calls have finished, one of them raising after its third attempt,
\* with a handlePoolError run and a completed shutdown among their steps.
C22_Witness ==
    /\ Len(calls) = 2
    /\ \A c \in Calls : Finished(c)
    /\ \E c \in Calls : calls[c].pc = "failed" /\ Attempts(c) = maxConnectionRetries
    /\ nHandled = 1
    /\ \E s \in Signals : shutdown[s].pc = "done"

\* C23: in the health-checking entrypoint, as in the long-running server, the
\* global error handler comes after every route registerRoutes added to the
\* app, so that an error a registered route raises is taken to it.
C23_ErrorHandlerAfterRoutes ==
    entrypoint \in {HealthEntry, ServerEntry} =>
        \A i \in DOMAIN stack :
            stack[i] = "routes" => ErrorSink(stack, i) = "errorHandler"

\* The origins a request may name and be accepted for: the built-in ones in
\* every mode, with those configured by VERCEL_URL and FRONTEND_URL in
\* production mode only.
ConfiguredOrigins ==
    (IF vercelUrl # Unset THEN {VercelOrigin(vercelUrl)} ELSE {})
      \cup (IF frontendUrl # Unset THEN {frontendUrl} ELSE {})
ExpectedAllowList ==
    {BuiltInOrigins[i] : i \in DOMAIN BuiltInOrigins}
      \cup (IF production THEN ConfiguredOrigins ELSE {})

\* C24: in every entrypoint the origin callback accepts a request with no
\* Origin header, or with an Origin in the allow-list, in every mode; it
\* accepts any other Origin when the mode is not production and rejects it
\* with the CORS error when the mode is production; and the allow-list holds
\* the origins configured by VERCEL_URL and FRONTEND_URL, beside the built-in
\* ones, in production mode only.
C24_CorsOriginDecision ==
    LET list == AllowedOrigins(production, vercelUrl, frontendUrl) IN
    /\ {list[i] : i \in DOMAIN list} = ExpectedAllowList
    /\ cors.called =>
         IF cors.origin = NoOrigin \/ cors.origin \in ExpectedAllowList
         THEN cors.allowed
         ELSE cors.allowed <=> ~production

\* In production mode with both variables set, a request from an origin in no
\* list has been rejected.
C24_Witness ==
    /\ production /\ vercelUrl # Unset /\ frontendUrl = "https://front.example"
    /\ cors.called /\ cors.origin = "https://evil.example" /\ ~cors.allowed

====
